---------------------------- MODULE Spec2Model ----------------------------
(***************************************************************************)
(* Model of src/main.py: MultiCurrencyTelegramBot.                         *)
(*                                                                         *)
(* The process checks its configuration (__main__), sends one startup     *)
(* announcement (run_bot) and then repeats monitor_prices / sleep forever. *)
(* One action models one handler in full.  The answers of the outside      *)
(* world (price providers, stats providers, the Telegram endpoint) are the *)
(* inputs of the actions, drawn from small sets.                           *)
(*                                                                         *)
(* Abstractions.                                                           *)
(*  - Prices are integers; the float quotient of the percentage change is  *)
(*    kept as an exact fraction (for the prices of the model the float     *)
(*    result is on the same side of every threshold as the exact one).     *)
(*  - Thresholds are kept in tenths of a percent (1.0 -> 10, 1.5 -> 15).   *)
(*  - Two of the five registry entries are tracked (BTC and TRB, in the    *)
(*    registry's order); the code treats every entry alike.                *)
(*  - A Python dict is a function whose DOMAIN is the dict's key set.      *)
(*  - A message is the record of what it was built from, not its text.     *)
(***************************************************************************)
EXTENDS Integers, Sequences, FiniteSets, TLC

VARIABLES
    pc,                 \* position of the process: main, startup, loop, sleeping, exited
    telegram_token,     \* TRUE when TELEGRAM_TOKEN_75 is set
    chat_id,            \* TRUE when TELEGRAM_CHAT_ID is set
    web_started,        \* the keep-alive thread has been started
    exit_code,          \* None while running, else the code given to exit()
    last_prices,        \* self.last_prices
    message_count,      \* self.message_count
    price_alerts_sent,  \* self.price_alerts_sent
    cycle,              \* number of monitor_prices calls made so far (history)
    price_calls,        \* requests made by the last price fetch, in order
    current_prices,     \* monitor_prices: current_prices
    stats_calls,        \* requests made by the last stats fetch, in order
    stats,              \* monitor_prices: stats
    individual_alerts,  \* monitor_prices: individual_alerts
    sent,               \* messages handed to send_telegram_message by the last handler
    outcome,            \* how the last monitor_prices ended
    sleep_for           \* seconds run_bot sleeps after the last monitor_prices

vars == <<pc, telegram_token, chat_id, web_started, exit_code, last_prices,
          message_count, price_alerts_sent, cycle, price_calls, current_prices,
          stats_calls, stats, individual_alerts, sent, outcome, sleep_for>>

---------------------------------------------------------------------------
(* Bounds of the model *)

\* monitor_prices is called at most MaxCycles times
MaxCycles == 3

\* prices a provider may report
Prices == {0, 50000, 50300, 50600}

---------------------------------------------------------------------------
(* Program constants *)

\* Python's None as the value of last_prices[symbol] and prices[symbol]
None == -1

\* the tracked symbols, in the order of self.currencies
Order == <<"BTC", "TRB">>

Symbols == {Order[i] : i \in 1..Len(Order)}

\* self.currencies: provider id and threshold (tenths of a percent)
currencies ==
    [s \in Symbols |->
        IF s = "BTC" THEN [coingecko_id |-> "bitcoin", threshold |-> 10]
        ELSE [coingecko_id |-> "tellor", threshold |-> 20]]

CoinGeckoIds == {currencies[s].coingecko_id : s \in Symbols}

\* should_send_summary_alert: message_count % 6
SummaryEvery == 6

\* asyncio.sleep(300) after a cycle
NormalSleep == 300

\* asyncio.sleep(60) after an error that reaches run_bot
RetrySleep == 60

EmptyDict == [k \in {} |-> 0]

Abs(x) == IF x < 0 THEN -x ELSE x

---------------------------------------------------------------------------
(* The outside world *)

\* A request fails (HTTP error, timeout, no JSON) or answers with a JSON
\* object that holds a price for some of the keys asked for.
Failed == [status |-> "fail", data |-> EmptyDict]

NotCalled == [status |-> "notcalled", data |-> EmptyDict]

Answers(keys) ==
    {[status |-> "ok", data |-> d] : d \in UNION {[K -> Prices] : K \in SUBSET keys}}

Responses(keys) == {Failed} \cup Answers(keys)

\* the answers to the per-symbol requests of _get_individual_prices
IndividualResponses ==
    {f \in [Symbols -> Responses(CoinGeckoIds)] :
        \A s \in Symbols : f[s] \in Responses({currencies[s].coingecko_id})}

---------------------------------------------------------------------------
(* Price acquisition *)

\* _parse_coingecko_bulk: the answer is keyed by provider id
_parse_coingecko_bulk(data) ==
    [s \in {x \in Symbols : currencies[x].coingecko_id \in DOMAIN data} |->
        data[currencies[s].coingecko_id]]

\* _parse_cryptocompare_bulk: the answer is keyed by symbol
_parse_cryptocompare_bulk(data) ==
    [s \in {x \in Symbols : x \in DOMAIN data} |-> data[s]]

\* One pass of the loop over the bulk sources: the parsed prices of the
\* answer, or the empty dict when the request raised.
BulkPrices(parsed, response) ==
    IF response.status = "ok" THEN parsed ELSE EmptyDict

\* _get_individual_prices: a failed request stores None, an answer without
\* the key stores nothing.
_get_individual_prices(ind) ==
    [s \in {x \in Symbols :
                \/ ind[x].status # "ok"
                \/ currencies[x].coingecko_id \in DOMAIN ind[x].data} |->
        IF ind[s].status # "ok" THEN None
        ELSE ind[s].data[currencies[s].coingecko_id]]

IndividualCalls(ind) ==
    [i \in 1..Len(Order) |->
        [source |-> "CoinGecko", symbol |-> Order[i], response |-> ind[Order[i]]]]

\* get_crypto_prices_bulk, accepting a bulk result only when it prices every
\* tracked asset
get_crypto_prices_bulk_FullOnly(r1, r2, ind) ==
    LET p1 == BulkPrices(_parse_coingecko_bulk(r1.data), r1)
        p2 == BulkPrices(_parse_cryptocompare_bulk(r2.data), r2)
        c1 == [source |-> "CoinGecko Bulk", symbol |-> "*", response |-> r1]
        c2 == [source |-> "CryptoCompare Bulk", symbol |-> "*", response |-> r2]
    IN  IF DOMAIN p1 = Symbols THEN [prices |-> p1, calls |-> <<c1>>]
        ELSE IF DOMAIN p2 = Symbols THEN [prices |-> p2, calls |-> <<c1, c2>>]
        ELSE [prices |-> _get_individual_prices(ind),
              calls |-> <<c1, c2>> \o IndividualCalls(ind)]

\* get_crypto_prices_bulk, asking both bulk sources before choosing
get_crypto_prices_bulk_AsksEverySource(r1, r2, ind) ==
    LET p1 == BulkPrices(_parse_coingecko_bulk(r1.data), r1)
        p2 == BulkPrices(_parse_cryptocompare_bulk(r2.data), r2)
        c1 == [source |-> "CoinGecko Bulk", symbol |-> "*", response |-> r1]
        c2 == [source |-> "CryptoCompare Bulk", symbol |-> "*", response |-> r2]
    IN  IF DOMAIN p1 # {} THEN [prices |-> p1, calls |-> <<c1, c2>>]
        ELSE IF DOMAIN p2 # {} THEN [prices |-> p2, calls |-> <<c1, c2>>]
        ELSE [prices |-> _get_individual_prices(ind),
              calls |-> <<c1, c2>> \o IndividualCalls(ind)]

\* get_crypto_prices_bulk: r1 and r2 are the answers of the two bulk
\* sources, ind the answers to the per-symbol requests.  Returns the prices
\* and the requests made.
get_crypto_prices_bulk(r1, r2, ind) ==
    LET p1 == BulkPrices(_parse_coingecko_bulk(r1.data), r1)
        p2 == BulkPrices(_parse_cryptocompare_bulk(r2.data), r2)
        c1 == [source |-> "CoinGecko Bulk", symbol |-> "*", response |-> r1]
        c2 == [source |-> "CryptoCompare Bulk", symbol |-> "*", response |-> r2]
    IN  IF DOMAIN p1 # {} THEN [prices |-> p1, calls |-> <<c1>>]
        ELSE IF DOMAIN p2 # {} THEN [prices |-> p2, calls |-> <<c1, c2>>]
        ELSE [prices |-> _get_individual_prices(ind),
              calls |-> <<c1, c2>> \o IndividualCalls(ind)]

---------------------------------------------------------------------------
(* 24h statistics *)

\* the figures a provider reports for one asset (one sample per provider)
CoinGeckoStats == [usd |-> 50000, usd_24h_change |-> 2, usd_24h_vol |-> 7]

CryptoCompareStats ==
    [CHANGE24HOUR |-> 500, CHANGEPCT24HOUR |-> 1, HIGH24HOUR |-> 50900,
     LOW24HOUR |-> 49800, VOLUME24HOUR |-> 9]

\* A stats answer covers the first n registry entries, for some n; keys
\* holds the names the entries have at the provider, in registry order.
StatsResponses(keys, sample) ==
    {Failed} \cup
    {[status |-> "ok",
      data |-> [k \in {keys[i] : i \in 1..n} |-> sample]] :
        n \in 0..Len(keys)}

CoinGeckoKeys == [i \in 1..Len(Order) |-> currencies[Order[i]].coingecko_id]

\* _get_fallback_stats
_get_fallback_stats ==
    [price_change |-> 0, price_change_percent |-> 0, high |-> 0, low |-> 0,
     volume |-> 0]

\* _parse_coingecko_stats_bulk
_parse_coingecko_stats_bulk(data) ==
    [s \in {x \in Symbols : currencies[x].coingecko_id \in DOMAIN data} |->
        LET coin_data == data[currencies[s].coingecko_id]
        IN  [price_change |->
                IF coin_data.usd_24h_change # 0
                THEN (coin_data.usd_24h_change * coin_data.usd) \div 100
                ELSE 0,
             price_change_percent |-> coin_data.usd_24h_change,
             high |-> (coin_data.usd * 102) \div 100,
             low |-> (coin_data.usd * 98) \div 100,
             volume |-> coin_data.usd_24h_vol]]

\* _parse_cryptocompare_stats_bulk (data is the RAW object of the answer)
_parse_cryptocompare_stats_bulk(data) ==
    [s \in {x \in Symbols : x \in DOMAIN data} |->
        [price_change |-> data[s].CHANGE24HOUR,
         price_change_percent |-> data[s].CHANGEPCT24HOUR,
         high |-> data[s].HIGH24HOUR,
         low |-> data[s].LOW24HOUR,
         volume |-> data[s].VOLUME24HOUR]]

\* get_24h_stats_bulk: q1 and q2 are the answers of the two stats sources
get_24h_stats_bulk(q1, q2) ==
    LET s1 == BulkPrices(_parse_coingecko_stats_bulk(q1.data), q1)
        s2 == BulkPrices(_parse_cryptocompare_stats_bulk(q2.data), q2)
        c1 == [source |-> "CoinGecko Bulk Stats", response |-> q1]
        c2 == [source |-> "CryptoCompare Full Stats", response |-> q2]
    IN  IF DOMAIN s1 # {} THEN [stats |-> s1, calls |-> <<c1>>]
        ELSE IF DOMAIN s2 # {} THEN [stats |-> s2, calls |-> <<c1, c2>>]
        ELSE [stats |-> [s \in Symbols |-> _get_fallback_stats],
              calls |-> <<c1, c2>>]

---------------------------------------------------------------------------
(* Notifier and formatting *)

\* send_telegram_message: the value returned; http_ok is whether the POST
\* succeeded.  Every exception is caught and gives False.
send_telegram_message(http_ok) ==
    IF ~telegram_token \/ ~chat_id THEN FALSE ELSE http_ok

\* the outcome of the i-th POST of a handler (a POST never made: FALSE)
HttpOk(oks, i) == IF i \in DOMAIN oks THEN oks[i] ELSE FALSE

\* One call of send_telegram_message as the log keeps it: the message, whether
\* the POST was made (line 331 passed), how the POST ended, the value returned.
Attempt(message, http_ok) ==
    [message |-> message,
     posted |-> telegram_token /\ chat_id,
     http_ok |-> http_ok,
     ok |-> send_telegram_message(http_ok)]

\* dict.get(symbol, self._get_fallback_stats())
StatsGet(st, symbol) ==
    IF symbol \in DOMAIN st THEN st[symbol] ELSE _get_fallback_stats

Direction(change) ==
    IF change > 0 THEN "up" ELSE IF change < 0 THEN "down" ELSE "flat"

\* format_single_currency_message
format_single_currency_message(symbol, price, symbol_stats) ==
    [kind |-> "alert", symbol |-> symbol, price |-> price,
     direction |-> Direction(symbol_stats.price_change),
     stats |-> symbol_stats]

\* format_multi_currency_summary: one line per symbol whose price is not None
format_multi_currency_summary(prices, st) ==
    [kind |-> "summary",
     lines |-> [s \in {x \in DOMAIN prices : prices[x] # None} |->
                  [price |-> prices[s],
                   direction |-> Direction(StatsGet(st, s).price_change),
                   price_change_percent |-> StatsGet(st, s).price_change_percent]]]

---------------------------------------------------------------------------
(* Alert decisions *)

\* Variants of should_send_individual_alert with a slip in them; the
\* properties below must tell each from the code.
\* ... the comparison is strict
should_send_individual_alert_Strict(symbol, current_price) ==
    LET last == last_prices[symbol]
    IN  IF last = None
        THEN [raised |-> FALSE, alert |-> TRUE, reason |-> "initial"]
        ELSE IF last = 0
        THEN [raised |-> TRUE, alert |-> FALSE, reason |-> "ZeroDivisionError"]
        ELSE IF Abs((current_price - last) * 100) * 10
                    > currencies[symbol].threshold * Abs(last)
        THEN [raised |-> FALSE, alert |-> TRUE, reason |-> "threshold"]
        ELSE [raised |-> FALSE, alert |-> FALSE, reason |-> "none"]

\* ... the change is not divided by the last price
should_send_individual_alert_Absolute(symbol, current_price) ==
    LET last == last_prices[symbol]
    IN  IF last = None
        THEN [raised |-> FALSE, alert |-> TRUE, reason |-> "initial"]
        ELSE IF last = 0
        THEN [raised |-> TRUE, alert |-> FALSE, reason |-> "ZeroDivisionError"]
        ELSE IF Abs(current_price - last) * 10 >= currencies[symbol].threshold
        THEN [raised |-> FALSE, alert |-> TRUE, reason |-> "threshold"]
        ELSE [raised |-> FALSE, alert |-> FALSE, reason |-> "none"]

\* ... the threshold rule comes before the initial check
should_send_individual_alert_ThresholdFirst(symbol, current_price) ==
    LET last == last_prices[symbol]
    IN  IF last = 0
        THEN [raised |-> TRUE, alert |-> FALSE, reason |-> "ZeroDivisionError"]
        ELSE IF Abs((current_price - last) * 100) * 10
                    >= currencies[symbol].threshold * Abs(last)
        THEN [raised |-> FALSE, alert |-> TRUE, reason |-> "threshold"]
        ELSE IF last = None
        THEN [raised |-> FALSE, alert |-> TRUE, reason |-> "initial"]
        ELSE [raised |-> FALSE, alert |-> FALSE, reason |-> "none"]

\* should_send_individual_alert, treating a stored price of zero as "no
\* previous price"
should_send_individual_alert_ZeroGuarded(symbol, current_price) ==
    IF last_prices[symbol] = None \/ last_prices[symbol] = 0
    THEN [raised |-> FALSE, alert |-> TRUE, reason |-> "initial"]
    ELSE IF Abs(current_price - last_prices[symbol]) * 1000
                >= currencies[symbol].threshold * last_prices[symbol]
    THEN [raised |-> FALSE, alert |-> TRUE, reason |-> "threshold"]
    ELSE [raised |-> FALSE, alert |-> FALSE, reason |-> "none"]

\* should_send_individual_alert.  The quotient
\* (current_price - last) / last * 100 is kept as the fraction num / den;
\* a last price of 0 raises ZeroDivisionError.
should_send_individual_alert(symbol, current_price) ==
    LET threshold == currencies[symbol].threshold
        last == last_prices[symbol]
        num == (current_price - last) * 100
        den == last
    IN  IF last = None
        THEN [raised |-> FALSE, alert |-> TRUE, reason |-> "initial"]
        ELSE IF den = 0
        THEN [raised |-> TRUE, alert |-> FALSE, reason |-> "ZeroDivisionError"]
        ELSE IF Abs(num) * 10 >= threshold * Abs(den)
        THEN [raised |-> FALSE, alert |-> TRUE, reason |-> "threshold"]
        ELSE [raised |-> FALSE, alert |-> FALSE, reason |-> "none"]

\* should_send_summary_alert, not due before the first delivered message
should_send_summary_alert_NonZero(count) ==
    count > 0 /\ count % SummaryEvery = 0

\* should_send_summary_alert, with self.message_count = count
should_send_summary_alert(count) == count % SummaryEvery = 0

\* monitor_prices, the loop that fills individual_alerts: symbols from the
\* i-th on, acc the alerts found so far.  An exception ends the loop.
RECURSIVE CheckAlerts(_, _, _)
CheckAlerts(i, prices, acc) ==
    IF i > Len(Order) THEN [raised |-> FALSE, alerts |-> acc]
    ELSE IF Order[i] \notin DOMAIN prices \/ prices[Order[i]] = None
    THEN CheckAlerts(i + 1, prices, acc)
    ELSE LET d == should_send_individual_alert(Order[i], prices[Order[i]])
         IN  IF d.raised THEN [raised |-> TRUE, alerts |-> acc]
             ELSE IF d.alert
             THEN CheckAlerts(i + 1, prices,
                      Append(acc, [symbol |-> Order[i],
                                   price |-> prices[Order[i]],
                                   reason |-> d.reason]))
             ELSE CheckAlerts(i + 1, prices, acc)

---------------------------------------------------------------------------
(* The monitoring cycle *)

\* UpdateLastPrices, recording a price only for the assets that alerted
UpdateLastPrices_OnlyOnAlert(prices) ==
    [s \in Symbols |->
        IF /\ s \in DOMAIN prices /\ prices[s] # None
           /\ LET alerts == CheckAlerts(1, prices, <<>>).alerts
              IN  \E i \in 1..Len(alerts) : alerts[i].symbol = s
        THEN prices[s]
        ELSE last_prices[s]]

\* monitor_prices, lines 478-481: the prices stored at the end of a cycle
UpdateLastPrices(prices) ==
    [s \in Symbols |->
        IF s \in DOMAIN prices /\ prices[s] # None THEN prices[s]
        ELSE last_prices[s]]

\* SendAlerts, giving up at the first alert that is not delivered
SendAlerts_StopAtFailure(alerts, st, oks) ==
    LET failed == {i \in 1..Len(alerts) :
                      ~send_telegram_message(HttpOk(oks, i))}
        last == IF failed = {} THEN Len(alerts)
                ELSE CHOOSE i \in failed : \A j \in failed : i <= j
    IN  [i \in 1..last |->
            Attempt(format_single_currency_message(
                        alerts[i].symbol, alerts[i].price,
                        StatsGet(st, alerts[i].symbol)),
                    HttpOk(oks, i))]

\* monitor_prices, lines 460-469: the alerts handed to the Notifier, the
\* i-th POST ending as oks says
SendAlerts(alerts, st, oks) ==
    [i \in 1..Len(alerts) |->
        Attempt(format_single_currency_message(
                    alerts[i].symbol, alerts[i].price,
                    StatsGet(st, alerts[i].symbol)),
                HttpOk(oks, i))]

\* Delivered, counting every attempt
Delivered_CountsAttempts(log) == Len(log)

\* the sends of a log that returned True: each one ran line 346
Delivered(log) == Cardinality({i \in 1..Len(log) : log[i].ok})

AlertsFor(alerts, s) == Cardinality({i \in 1..Len(alerts) : alerts[i].symbol = s})

\* A variant of SummaryDue that forgets the individual alerts
SummaryDue_IgnoringAlerts(count, alerts) == should_send_summary_alert(count)

\* monitor_prices, lines 472-473: should_summary and not individual_alerts
SummaryDue(count, alerts) ==
    should_send_summary_alert(count) /\ Len(alerts) = 0

\* monitor_prices: the whole handler.  r1, r2, ind are the answers of the
\* price providers, q1, q2 those of the stats providers, oks the outcomes of
\* the POSTs to Telegram.  Gives the values the handler leaves behind;
\* raised says whether an exception leaves the handler.
monitor_prices(r1, r2, ind, q1, q2, oks) ==
    LET fetched == get_crypto_prices_bulk(r1, r2, ind)
        prices == fetched.prices
        got == get_24h_stats_bulk(q1, q2)
        checked == CheckAlerts(1, prices, <<>>)
        alerts == checked.alerts
        alert_log == SendAlerts(alerts, got.stats, oks)
        count1 == message_count + Delivered(alert_log)
        summary == SummaryDue(count1, alerts)
        summary_log ==
            IF summary
            THEN <<Attempt(format_multi_currency_summary(prices, got.stats),
                           HttpOk(oks, Len(alerts) + 1))>>
            ELSE <<>>
        error_log ==
            <<Attempt([kind |-> "error", text |-> "ZeroDivisionError"],
                      HttpOk(oks, 1))>>
    IN  IF DOMAIN prices = {}
        THEN [outcome |-> "skipped", raised |-> FALSE,
              price_calls |-> fetched.calls, current_prices |-> prices,
              stats_calls |-> <<>>, stats |-> EmptyDict,
              individual_alerts |-> <<>>, sent |-> <<>>,
              message_count |-> message_count,
              price_alerts_sent |-> price_alerts_sent,
              last_prices |-> last_prices]
        ELSE IF checked.raised
        THEN [outcome |-> "error", raised |-> FALSE,
              price_calls |-> fetched.calls, current_prices |-> prices,
              stats_calls |-> got.calls, stats |-> got.stats,
              individual_alerts |-> alerts, sent |-> error_log,
              message_count |-> message_count + Delivered(error_log),
              price_alerts_sent |-> price_alerts_sent,
              last_prices |-> last_prices]
        ELSE [outcome |-> "completed", raised |-> FALSE,
              price_calls |-> fetched.calls, current_prices |-> prices,
              stats_calls |-> got.calls, stats |-> got.stats,
              individual_alerts |-> alerts, sent |-> alert_log \o summary_log,
              message_count |-> count1 + Delivered(summary_log),
              price_alerts_sent |->
                  [s \in Symbols |-> price_alerts_sent[s] + AlertsFor(alerts, s)],
              last_prices |-> UpdateLastPrices(prices)]

\* a bulk request that leaves the loop over the sources running
FallsThrough(parsed, response) == DOMAIN BulkPrices(parsed, response) = {}

NoIndividual == [s \in Symbols |-> NotCalled]

---------------------------------------------------------------------------
(* The process *)

Init ==
    /\ pc = "main"
    /\ telegram_token \in BOOLEAN
    /\ chat_id \in BOOLEAN
    /\ web_started = FALSE
    /\ exit_code = None
    /\ last_prices = [s \in Symbols |-> None]
    /\ message_count = 0
    /\ price_alerts_sent = [s \in Symbols |-> 0]
    /\ cycle = 0
    /\ price_calls = <<>>
    /\ current_prices = EmptyDict
    /\ stats_calls = <<>>
    /\ stats = EmptyDict
    /\ individual_alerts = <<>>
    /\ sent = <<>>
    /\ outcome = "none"
    /\ sleep_for = 0

\* __main__, checking TELEGRAM_TOKEN_75 only
Main_TokenOnly ==
    /\ pc = "main"
    /\ IF ~telegram_token
       THEN /\ exit_code' = 1
            /\ pc' = "exited"
            /\ UNCHANGED web_started
       ELSE /\ web_started' = TRUE
            /\ pc' = "startup"
            /\ UNCHANGED exit_code
    /\ UNCHANGED <<telegram_token, chat_id, last_prices, message_count,
                   price_alerts_sent, cycle, price_calls, current_prices,
                   stats_calls, stats, individual_alerts, sent, outcome,
                   sleep_for>>

\* __main__: exit(1) when a variable is missing, else start the web thread
\* and call run_bot
Main ==
    /\ pc = "main"
    /\ IF ~telegram_token \/ ~chat_id
       THEN /\ exit_code' = 1
            /\ pc' = "exited"
            /\ UNCHANGED web_started
       ELSE /\ web_started' = TRUE
            /\ pc' = "startup"
            /\ UNCHANGED exit_code
    /\ UNCHANGED <<telegram_token, chat_id, last_prices, message_count,
                   price_alerts_sent, cycle, price_calls, current_prices,
                   stats_calls, stats, individual_alerts, sent, outcome,
                   sleep_for>>

\* RunBotStartup, entering the loop only when the announcement was delivered
RunBotStartup_NeedsDelivery ==
    /\ pc = "startup"
    /\ \E http_ok \in BOOLEAN :
        /\ sent' = <<Attempt([kind |-> "startup"], http_ok)>>
        /\ message_count' = message_count + Delivered(sent')
    /\ pc' = IF sent'[1].ok THEN "loop" ELSE "exited"
    /\ exit_code' = IF sent'[1].ok THEN exit_code ELSE 1
    /\ UNCHANGED <<telegram_token, chat_id, web_started, last_prices,
                   price_alerts_sent, cycle, price_calls, current_prices,
                   stats_calls, stats, individual_alerts, outcome, sleep_for>>

\* run_bot up to the loop: the startup announcement
RunBotStartup ==
    /\ pc = "startup"
    /\ \E http_ok \in BOOLEAN :
        /\ sent' = <<Attempt([kind |-> "startup"], http_ok)>>
        /\ message_count' = message_count + Delivered(sent')
    /\ pc' = "loop"
    /\ UNCHANGED <<telegram_token, chat_id, web_started, exit_code, last_prices,
                   price_alerts_sent, cycle, price_calls, current_prices,
                   stats_calls, stats, individual_alerts, outcome, sleep_for>>

\* Cycle, counting an alert in price_alerts_sent only when it was delivered
Cycle_CountsDelivered(r1, r2, ind, q1, q2) ==
    \E n \in {Len(monitor_prices(r1, r2, ind, q1, q2, <<>>).sent)} :
    \E oks \in [1..n -> BOOLEAN] :
    \E res \in {monitor_prices(r1, r2, ind, q1, q2, oks)} :
        /\ last_prices' = res.last_prices
        /\ message_count' = res.message_count
        /\ price_alerts_sent' =
            [s \in Symbols |->
                price_alerts_sent[s]
                + Cardinality({i \in 1..Len(res.sent) :
                      /\ res.sent[i].message.kind = "alert"
                      /\ res.sent[i].message.symbol = s
                      /\ res.sent[i].ok})]
        /\ price_calls' = res.price_calls
        /\ current_prices' = res.current_prices
        /\ stats_calls' = res.stats_calls
        /\ stats' = res.stats
        /\ individual_alerts' = res.individual_alerts
        /\ sent' = res.sent
        /\ outcome' = res.outcome
        /\ sleep_for' = IF res.raised THEN RetrySleep ELSE NormalSleep

\* what one monitor_prices call leaves behind, and the sleep run_bot picks
Cycle(r1, r2, ind, q1, q2) ==
    \E n \in {Len(monitor_prices(r1, r2, ind, q1, q2, <<>>).sent)} :
    \E oks \in [1..n -> BOOLEAN] :
    \E res \in {monitor_prices(r1, r2, ind, q1, q2, oks)} :
        /\ last_prices' = res.last_prices
        /\ message_count' = res.message_count
        /\ price_alerts_sent' = res.price_alerts_sent
        /\ price_calls' = res.price_calls
        /\ current_prices' = res.current_prices
        /\ stats_calls' = res.stats_calls
        /\ stats' = res.stats
        /\ individual_alerts' = res.individual_alerts
        /\ sent' = res.sent
        /\ outcome' = res.outcome
        /\ sleep_for' = IF res.raised THEN RetrySleep ELSE NormalSleep

\* one monitor_prices call, for every answer the outside world may give
RunCycle ==
    /\ \E r1 \in Responses(CoinGeckoIds) :
       \E r2 \in IF FallsThrough(_parse_coingecko_bulk(r1.data), r1)
                 THEN Responses(Symbols) ELSE {NotCalled} :
       \E ind \in IF /\ FallsThrough(_parse_coingecko_bulk(r1.data), r1)
                     /\ FallsThrough(_parse_cryptocompare_bulk(r2.data), r2)
                  THEN IndividualResponses ELSE {NoIndividual} :
       \E q1 \in IF DOMAIN get_crypto_prices_bulk(r1, r2, ind).prices # {}
                 THEN StatsResponses(CoinGeckoKeys, CoinGeckoStats)
                 ELSE {NotCalled} :
       \E q2 \in IF q1.status # "notcalled"
                    /\ FallsThrough(_parse_coingecko_stats_bulk(q1.data), q1)
                 THEN StatsResponses(Order, CryptoCompareStats)
                 ELSE {NotCalled} :
           Cycle(r1, r2, ind, q1, q2)

\* MonitorPrices without the handlers around the cycle: an error raised in
\* the cycle ends the process
MonitorPrices_ExitsOnError ==
    /\ pc = "loop"
    /\ cycle < MaxCycles
    /\ cycle' = cycle + 1
    /\ RunCycle
    /\ pc' = IF outcome' = "error" THEN "exited" ELSE "sleeping"
    /\ exit_code' = IF outcome' = "error" THEN 1 ELSE exit_code
    /\ UNCHANGED <<telegram_token, chat_id, web_started>>

\* run_bot, one pass of the loop up to the sleep: monitor_prices
MonitorPrices ==
    /\ pc = "loop"
    /\ cycle < MaxCycles
    /\ cycle' = cycle + 1
    /\ RunCycle
    /\ pc' = "sleeping"
    /\ UNCHANGED <<telegram_token, chat_id, web_started, exit_code>>

\* run_bot: the sleep ends and the loop starts over; the locals of the
\* finished monitor_prices call are gone
Sleep ==
    /\ pc = "sleeping"
    /\ pc' = "loop"
    /\ price_calls' = <<>>
    /\ current_prices' = EmptyDict
    /\ stats_calls' = <<>>
    /\ stats' = EmptyDict
    /\ individual_alerts' = <<>>
    /\ sent' = <<>>
    /\ outcome' = "none"
    /\ sleep_for' = 0
    /\ UNCHANGED <<telegram_token, chat_id, web_started, exit_code, last_prices,
                   message_count, price_alerts_sent, cycle>>

\* KeyboardInterrupt while run_bot loops: __main__ logs "Bot stopped by
\* user" and the process ends, exit code 0.  The locals are gone.
Shutdown ==
    /\ pc \in {"loop", "sleeping"}
    /\ pc' = "exited"
    /\ exit_code' = 0
    /\ price_calls' = <<>>
    /\ current_prices' = EmptyDict
    /\ stats_calls' = <<>>
    /\ stats' = EmptyDict
    /\ individual_alerts' = <<>>
    /\ sent' = <<>>
    /\ outcome' = "none"
    /\ sleep_for' = 0
    /\ UNCHANGED <<telegram_token, chat_id, web_started, last_prices,
                   message_count, price_alerts_sent, cycle>>

Next == Main \/ RunBotStartup \/ MonitorPrices \/ Sleep \/ Shutdown

Spec == Init /\ [][Next]_vars

\* The event loop runs run_bot to the end of each sleep and into the next
\* monitor_prices call unless the process is interrupted.
FairSpec ==
    /\ Spec
    /\ WF_pc(pc = "sleeping" /\ pc' = "loop")
    /\ WF_pc(pc = "loop" /\ cycle < MaxCycles /\ pc' = "sleeping")


---------------------------------------------------------------------------
(* Vocabulary of the properties *)

\* a monitor_prices call has just run
CycleRan == pc = "loop" /\ pc' = "sleeping"

\* the symbol has a usable price in the dict p
Usable(p, s) == s \in DOMAIN p /\ p[s] # None

Kinds(log) == {log[i].message.kind : i \in 1..Len(log)}

AlertedSymbols(log) ==
    {log[i].message.symbol :
        i \in {j \in 1..Len(log) : log[j].message.kind = "alert"}}

\* both bulk requests and every per-symbol request of the last fetch failed
EverySourceFailed ==
    /\ Len(price_calls) = 2 + Len(Order)
    /\ \A i \in 1..Len(price_calls) : price_calls[i].response.status = "fail"

\* |c - p| / p * 100 >= threshold of s, for a previous price p > 0
AtOrAbove(s, p, c) == Abs(c - p) * 1000 >= currencies[s].threshold * p

\* prices the decision function is tried on: those of the model and two
\* that sit exactly on a threshold of 50000 (1.0% and 2.0%)
DecisionPrices == Prices \cup {50500, 51000}

---------------------------------------------------------------------------
(* Properties *)

C3_ZeroPreviousPriceAlerts ==
    [][\A s \in Symbols :
        (CycleRan /\ last_prices[s] = 0 /\ Usable(current_prices', s)) =>
            /\ outcome' = "completed"
            /\ s \in AlertedSymbols(sent')]_vars

\* C4: a summary is sent in exactly the cycles whose number is a multiple of
\* 6 and in which no individual alert was due.  The code counts delivered
\* messages, not cycles.
C4_SummaryEverySixthCycle ==
    (pc = "sleeping" /\ outcome = "completed") =>
        (("summary" \in Kinds(sent)) <=>
            (cycle % SummaryEvery = 0 /\ individual_alerts = <<>>))

\* C5: a cycle in which an individual alert was due sends no summary.
C5_SummaryExcludedByAlerts ==
    (pc = "sleeping" /\ individual_alerts # <<>>) =>
        "summary" \notin Kinds(sent)

\* C5 witness: alerts were due in a cycle that ended with message_count a
\* multiple of 6, so that only the alerts kept the summary back.
C5_Witness ==
    /\ pc = "sleeping"
    /\ outcome = "completed"
    /\ individual_alerts # <<>>
    /\ should_send_summary_alert(message_count)
    /\ "alert" \in Kinds(sent)

\* C6: after an unexpected error in the cycle body one error alert is
\* attempted and run_bot sleeps 60 seconds.  The code sleeps 300 seconds:
\* monitor_prices catches the error itself, so nothing reaches run_bot.
C6_ErrorBacksOffSixtySeconds ==
    (pc = "sleeping" /\ outcome = "error") =>
        (Len(sent) = 1 /\ "error" \in Kinds(sent) /\ sleep_for = RetrySleep)

\* C7: at the end of every cycle last_prices holds the cycle's price for
\* every asset with a usable price and is unchanged for the others, and no
\* other step writes last_prices.  A cycle that ends in the division fault
\* of C3 stores nothing.
C7_LastPricesFollowCycle ==
    [][/\ CycleRan =>
            last_prices' = [s \in Symbols |->
                IF Usable(current_prices', s) THEN current_prices'[s]
                ELSE last_prices[s]]
       /\ ~CycleRan => last_prices' = last_prices]_vars

BelowThreshold(s) ==
    /\ last_prices[s] # None
    /\ last_prices[s] > 0
    /\ Usable(current_prices', s)
    /\ ~AtOrAbove(s, last_prices[s], current_prices'[s])

\* C9: a cycle sends no individual alert for an asset whose price moved by
\* less than its threshold; when that is so for every asset and no summary
\* is due (message_count is not a multiple of 6), the cycle sends nothing.
C9_BelowThresholdSendsNothing ==
    [][CycleRan =>
        /\ \A s \in Symbols :
            BelowThreshold(s) => s \notin AlertedSymbols(sent')
        /\ ((\A s \in Symbols : BelowThreshold(s))
                /\ ~should_send_summary_alert(message_count)) =>
            sent' = <<>>]_vars

\* C9 witness: BTC found at 50300 and TRB at 50600, both with a recorded
\* price (an asset without one would have alerted), no summary due, and the
\* cycle sent nothing.
C9_Witness ==
    /\ pc = "sleeping"
    /\ outcome = "completed"
    /\ current_prices = [s \in Symbols |-> IF s = "BTC" THEN 50300 ELSE 50600]
    /\ ~should_send_summary_alert(message_count)
    /\ individual_alerts = <<>>
    /\ sent = <<>>

\* C10: while an asset has no recorded price, the decision on any price is
\* "alert" with the initial reason (never the threshold reason), and the
\* cycle in which the asset first returns a price, whichever it is, lists
\* that alert.
C10_InitialCheckAlerts ==
    [][\A s \in Symbols :
        (CycleRan /\ last_prices[s] = None) =>
            /\ \A c \in DecisionPrices :
                should_send_individual_alert(s, c) =
                    [raised |-> FALSE, alert |-> TRUE, reason |-> "initial"]
            /\ (Usable(current_prices', s) /\ outcome' = "completed") =>
                /\ \E i \in 1..Len(individual_alerts') :
                    individual_alerts'[i] =
                        [symbol |-> s, price |-> current_prices'[s],
                         reason |-> "initial"]
                /\ s \in AlertedSymbols(sent')]_vars

\* C10 witness: an initial alert in a cycle after the first, for an asset
\* that had returned no price before.
C10_Witness ==
    /\ pc = "sleeping"
    /\ cycle > 1
    /\ outcome = "completed"
    /\ \E i \in 1..Len(individual_alerts) :
        /\ individual_alerts[i].reason = "initial"
        /\ price_alerts_sent[individual_alerts[i].symbol] = 1
        /\ individual_alerts[i].symbol \in AlertedSymbols(sent)

\* the POSTs of a log that the Telegram endpoint accepted
Accepted(log) ==
    Cardinality({i \in 1..Len(log) : log[i].posted /\ log[i].http_ok})

\* a step in which send_telegram_message is called: the startup announcement
\* or one monitor cycle
SendingStep == (pc = "startup" /\ pc' = "loop") \/ CycleRan

\* C11: message_count never decreases; a step raises it by exactly one for
\* each send_telegram_message call whose POST was accepted, a failed or
\* unconfigured send returns False and adds nothing, and no other step
\* changes it.
C11_MessageCountCountsDeliveries ==
    [][/\ message_count' >= message_count
       /\ SendingStep => message_count' = message_count + Accepted(sent')
       /\ ~SendingStep => message_count' = message_count
       /\ \A http_ok \in BOOLEAN :
            (~telegram_token \/ ~chat_id \/ ~http_ok) =>
                ~send_telegram_message(http_ok)]_vars

\* C11 witness: a cycle with one alert delivered and one alert failed, the
\* count up by one.
C11_Witness ==
    /\ pc = "sleeping"
    /\ cycle = 1
    /\ Len(sent) = 2
    /\ sent[1].ok /\ ~sent[2].ok
    /\ message_count \in {1, 2}
    /\ Accepted(sent) = 1

\* the log holds an alert that was not delivered
AlertFailed(log) ==
    \E i \in 1..Len(log) : log[i].message.kind = "alert" /\ ~log[i].ok

\* C12: send_telegram_message returns a Boolean and never raises: False on a
\* missing credential or a failed POST, True on an accepted POST.  A cycle
\* in which an alert is not delivered still attempts every due alert, in
\* order, ends without an error and stores every usable price in
\* last_prices.
C12_SendFailureDoesNotStopCycle ==
    [][/\ \A http_ok \in BOOLEAN :
            send_telegram_message(http_ok) =
                (telegram_token /\ chat_id /\ http_ok)
       /\ (CycleRan /\ AlertFailed(sent')) =>
            /\ outcome' = "completed"
            /\ Len(sent') >= Len(individual_alerts')
            /\ \A j \in 1..Len(individual_alerts') :
                /\ sent'[j].message.kind = "alert"
                /\ sent'[j].message.symbol = individual_alerts'[j].symbol
                /\ sent'[j].message.price = individual_alerts'[j].price
            /\ \A s \in Symbols :
                Usable(current_prices', s) =>
                    last_prices'[s] = current_prices'[s]]_vars

\* C12 witness: the first of two due alerts is not delivered, the second is
\* attempted and delivered, and both prices are stored.
C12_Witness ==
    /\ pc = "sleeping"
    /\ Len(individual_alerts) = 2
    /\ Len(sent) = 2
    /\ ~sent[1].ok /\ sent[2].ok
    /\ sent[2].message.symbol = individual_alerts[2].symbol
    /\ \A s \in Symbols : last_prices[s] = current_prices[s]

\* what the i-th price request of the cycle parsed to (bulk requests only)
ParsedCall(i) ==
    IF price_calls[i].source = "CoinGecko Bulk"
    THEN BulkPrices(_parse_coingecko_bulk(price_calls[i].response.data),
                    price_calls[i].response)
    ELSE BulkPrices(_parse_cryptocompare_bulk(price_calls[i].response.data),
                    price_calls[i].response)

BulkSources == {"CoinGecko Bulk", "CryptoCompare Bulk"}

\* C13: the price requests of one fetch follow the list order: CoinGecko
\* bulk first, CryptoCompare bulk second and only after the first gave
\* nothing, per-asset requests only after both gave nothing, each bulk
\* source asked at most once.  When the first request fails and the second
\* parses to a non-empty dict, the result is that dict exactly and the
\* second request is the last one; when the first parses to a non-empty
\* dict it is the only request.
C13_SourcesTriedInOrder ==
    LET n == Len(price_calls)
    IN  n >= 1 =>
        /\ \A i \in 1..n : price_calls[i].response.status # "notcalled"
        /\ price_calls[1].source = "CoinGecko Bulk"
        /\ n >= 2 =>
            /\ price_calls[2].source = "CryptoCompare Bulk"
            /\ DOMAIN ParsedCall(1) = {}
        /\ \A i \in 3..n :
            /\ price_calls[i].source \notin BulkSources
            /\ DOMAIN ParsedCall(1) = {} /\ DOMAIN ParsedCall(2) = {}
        /\ DOMAIN ParsedCall(1) # {} =>
            n = 1 /\ current_prices = ParsedCall(1)
        /\ (/\ price_calls[1].response.status = "fail"
            /\ n >= 2
            /\ DOMAIN ParsedCall(2) # {}) =>
                /\ n = 2
                /\ current_prices =
                       _parse_cryptocompare_bulk(price_calls[2].response.data)

\* C13 witness: the first source failed, the second answered with prices.
C13_Witness ==
    /\ pc = "sleeping"
    /\ Len(price_calls) = 2
    /\ price_calls[1].response.status = "fail"
    /\ price_calls[2].response.status = "ok"
    /\ DOMAIN current_prices # {}
    /\ current_prices = _parse_cryptocompare_bulk(price_calls[2].response.data)

\* the i-th price request is a bulk request that parsed to prices for some
\* but not all tracked assets
PartialCall(i) ==
    /\ price_calls[i].source \in BulkSources
    /\ DOMAIN ParsedCall(i) \notin {{}, Symbols}

\* C14: a bulk result that prices a non-empty strict subset of the tracked
\* assets is the whole result of the fetch: it is the last request made,
\* current_prices is exactly that dict (nothing merged in), and an asset it
\* leaves out has no price, no decision and no alert in the cycle.
C14_PartialResultAccepted ==
    \A i \in 1..Len(price_calls) :
        PartialCall(i) =>
            /\ i = Len(price_calls)
            /\ current_prices = ParsedCall(i)
            /\ \A s \in Symbols \ DOMAIN ParsedCall(i) :
                /\ s \notin DOMAIN current_prices
                /\ AlertsFor(individual_alerts, s) = 0
                /\ s \notin AlertedSymbols(sent)

\* C14 witness: the first source priced TRB only; BTC, already recorded, is
\* left out of the cycle, which completes.
C14_Witness ==
    /\ pc = "sleeping"
    /\ outcome = "completed"
    /\ Len(price_calls) = 1
    /\ PartialCall(1)
    /\ DOMAIN current_prices = {"TRB"}
    /\ last_prices["BTC"] # None

\* both stats requests of the cycle were made and failed
EveryStatsSourceFailed ==
    /\ Len(stats_calls) = 2
    /\ \A i \in 1..2 : stats_calls[i].response.status = "fail"

\* every alert the decision step listed was handed to the Notifier, in
\* order, carrying the all-zero stats
AlertsSentWithZeroStats ==
    /\ Len(sent) >= Len(individual_alerts)
    /\ \A i \in 1..Len(individual_alerts) :
        /\ sent[i].message.kind = "alert"
        /\ sent[i].message.symbol = individual_alerts[i].symbol
        /\ sent[i].message.stats = _get_fallback_stats

\* C15: in a cycle whose stats sources all failed, every asset's stats are
\* the all-zero fallback, the cycle is not aborted, and every alert due on
\* price grounds is sent, with the zero stats.
C15_StatsFailureKeepsCycle ==
    (pc = "sleeping" /\ EveryStatsSourceFailed) =>
        /\ stats = [s \in Symbols |-> _get_fallback_stats]
        /\ outcome = "completed"
        /\ AlertsSentWithZeroStats

\* run_bot is inside its `while True`
InLoop == pc \in {"loop", "sleeping"}

\* C16: the monitor loop never exits on its own.  The only step that leaves
\* the loop is the shutdown signal (exit code 0); and from every state of
\* the loop, whatever the cycles met (skipped, aborted by an error, failed
\* deliveries), cycle follows cycle until the process is shut down or the
\* MaxCycles cycles explored have all started.
C16_LoopNeverExits ==
    /\ [][(InLoop /\ pc' \notin {"loop", "sleeping"}) =>
            (pc' = "exited" /\ exit_code' = 0)]_vars
    /\ InLoop ~> (pc = "exited" \/ cycle = MaxCycles)

\* C16 witness: a cycle that was aborted by an error is followed by another
\* cycle.
C16_Witness ==
    /\ pc = "sleeping"
    /\ cycle = MaxCycles
    /\ exit_code = None
    /\ \E s \in Symbols : last_prices[s] = 0 /\ Usable(current_prices, s)
    /\ outcome = "error"

\* TELEGRAM_TOKEN_75 or TELEGRAM_CHAT_ID is missing from the environment
CredentialMissing == ~telegram_token \/ ~chat_id

\* C17: with a credential or the chat id missing the process does nothing
\* but exit with a non-zero code: the liveness server is never started, no
\* startup announcement or any other message is attempted, and no monitor
\* cycle runs.
C17_MissingCredentialExitsFirst ==
    CredentialMissing =>
        /\ pc \in {"main", "exited"}
        /\ pc = "exited" => exit_code \notin {None, 0}
        /\ ~web_started
        /\ sent = <<>>
        /\ message_count = 0
        /\ cycle = 0
        /\ price_calls = <<>>

\* C17 witness: the process has exited with code 1, the chat id missing.
C17_Witness ==
    /\ pc = "exited"
    /\ telegram_token /\ ~chat_id
    /\ exit_code = 1
    /\ ~web_started

\* C18: a run attempts the startup announcement exactly once: run_bot is
\* entered once, its first step hands exactly one message, the announcement,
\* to the Notifier before any cycle or price request, and then enters the
\* loop whether or not the announcement was delivered; no later step sends
\* an announcement.
C18_OneStartupAnnouncement ==
    [][/\ pc' = "main" => pc = "main"
       /\ pc' = "startup" => pc \in {"main", "startup"}
       /\ pc = "startup" =>
            /\ pc' = "loop"
            /\ cycle = 0 /\ cycle' = 0
            /\ price_calls' = <<>>
            /\ Len(sent') = 1
            /\ sent'[1].message.kind = "startup"
       /\ pc # "startup" => "startup" \notin Kinds(sent')]_vars

\* C18 witness: the announcement failed (nothing has been delivered so far)
\* and a cycle has run and completed.
C18_Witness ==
    /\ pc = "sleeping"
    /\ cycle = 1
    /\ outcome = "completed"
    /\ message_count = 0
    /\ sent # <<>>

\* C19: once 0 is stored as an asset's last price, every cycle in which that
\* asset returns a price is aborted in the decision step: the only message
\* of the cycle is the error notice (no alert, no summary, for any asset), no
\* alert is counted, and no entry of last_prices changes, so the stored 0
\* stays.
C19_ZeroLastPriceAbortsCycles ==
    [][\A s \in Symbols :
        (CycleRan /\ last_prices[s] = 0 /\ Usable(current_prices', s)) =>
            /\ outcome' = "error"
            /\ Kinds(sent') = {"error"}
            /\ price_alerts_sent' = price_alerts_sent
            /\ last_prices' = last_prices
            /\ last_prices'[s] = 0]_vars

\* C19 witness: the third cycle is aborted on an asset whose stored price is
\* 0 while the other asset has a price too.
C19_Witness ==
    /\ pc = "sleeping"
    /\ cycle = MaxCycles
    /\ outcome = "error"
    /\ last_prices["TRB"] = 0
    /\ Usable(current_prices, "TRB")
    /\ Usable(current_prices, "BTC")
    /\ last_prices["BTC"] \notin {None, 0}
    /\ Kinds(sent) = {"error"}

\* the log holds a summary; a summary that was delivered
SummaryAttempted(log) == "summary" \in Kinds(log)
SummaryDelivered(log) ==
    \E i \in 1..Len(log) : log[i].message.kind = "summary" /\ log[i].ok

CompletedWithPrice(s) ==
    CycleRan /\ outcome' = "completed" /\ Usable(current_prices', s)

\* C21: the threshold comparison is made against the price recorded by the
\* most recent cycle that completed with a price for the asset.  Such a cycle
\* overwrites last_prices[s] with the price it fetched whether or not it
\* alerted for s, and no other step changes last_prices[s]; with a price
\* recorded, the cycle alerts for s exactly when the fetched price is at or
\* beyond the threshold measured from that recorded price, so moves that are
\* each below the threshold never alert, whatever they add up to.
C21_ThresholdAgainstLatestPrice ==
    [][\A s \in Symbols :
        /\ CompletedWithPrice(s) => last_prices'[s] = current_prices'[s]
        /\ ~CompletedWithPrice(s) => last_prices'[s] = last_prices[s]
        /\ (CompletedWithPrice(s) /\ last_prices[s] # None) =>
            /\ s \in AlertedSymbols(sent') <=>
                AtOrAbove(s, last_prices[s], current_prices'[s])
            /\ \A c \in DecisionPrices :
                should_send_individual_alert(s, c).alert <=>
                    AtOrAbove(s, last_prices[s], c)]_vars

\* C21 witness: in the third cycle BTC is found at 50600 and recorded without
\* an alert (its one alert is the initial one); measured from 50000 the move
\* would be 1.2 percent against a threshold of 1, and from the recorded 50600
\* a return to 50000 would alert while 50300 would not.
C21_Witness ==
    /\ pc = "sleeping"
    /\ cycle = MaxCycles
    /\ outcome = "completed"
    /\ Usable(current_prices, "BTC")
    /\ current_prices["BTC"] = 50600
    /\ last_prices["BTC"] = 50600
    /\ "BTC" \notin AlertedSymbols(sent)
    /\ price_alerts_sent["BTC"] = 1
    /\ AtOrAbove("BTC", 50000, 50600)
    /\ should_send_individual_alert("BTC", 50000).alert
    /\ ~should_send_individual_alert("BTC", 50300).alert

\* the individual alerts of a log handed to the Notifier for the asset
AlertAttempts(log, s) ==
    Cardinality({i \in 1..Len(log) :
        log[i].message.kind = "alert" /\ log[i].message.symbol = s})

\* C22: price_alerts_sent[s] never decreases.  A cycle raises it by exactly
\* one for each individual alert handed to send_telegram_message for s,
\* delivered or not; the startup announcement, a summary, an error notice
\* and every other step leave it unchanged.
C22_AlertsCountedPerAttempt ==
    [][\A s \in Symbols :
        /\ price_alerts_sent'[s] >= price_alerts_sent[s]
        /\ CycleRan =>
            price_alerts_sent'[s] =
                price_alerts_sent[s] + AlertAttempts(sent', s)
        /\ ~CycleRan => price_alerts_sent'[s] = price_alerts_sent[s]]_vars

\* C22 witness: two alerts were attempted and counted, neither was
\* delivered, and a summary that followed was delivered without being
\* counted: the alert counts add up to more than message_count.
C22_Witness ==
    /\ pc = "sleeping"
    /\ price_alerts_sent["BTC"] + price_alerts_sent["TRB"] = 2
    /\ message_count = 1
    /\ Kinds(sent) = {"summary"}
    /\ sent[1].ok

============================================================================
